---------------------------- MODULE Spec2Model ----------------------------
(***************************************************************************)
(* FinGaurd fraud detection service (python-fraud-service).                *)
(*                                                                         *)
(* The model covers FraudDetectionService (services/fraud_detector.py),    *)
(* the /analyze handler with its ML blend step (api/v1/fraud.py) and       *)
(* ModelManager.predict (ml/model_manager.py), the legacy /detect handler  *)
(* (main.py), and the standalone fraud-detection service: its /detect      *)
(* handler (fraud-detection/main.py) and FraudDetectionEngine              *)
(* (fraud-detection/fraud_rules.py).                                       *)
(*                                                                         *)
(* Representation of numbers.  Python floats and Decimals are modelled as  *)
(* exact fixed-point integers:                                             *)
(*   - an amount is a number of cents;                                     *)
(*   - a factor score is a multiple of 1/SD (SD = 12 000 000 makes every   *)
(*     score the code can produce an integer: the amount ramps move in     *)
(*     steps of 1/4 000 000 per cent and the velocity ramp in thirds);     *)
(*   - the weighted sum is a multiple of 1/RD, RD = 100 * SD, the weights  *)
(*     being percentages;                                                  *)
(*   - every value that the code rounds to four decimals is a multiple of  *)
(*     1/10000 (R4).                                                       *)
(* The arithmetic is exact, so a float's last-bit error is not modelled;   *)
(* Round4 rounds to nearest, ties to even.                                 *)
(*                                                                         *)
(* Representation of time.  A datetime is a record [tz, wall, off]: wall   *)
(* is the wall-clock reading in seconds counted from datetime.min, off the *)
(* UTC offset in seconds, tz one of "none" (the argument is None), "naive" *)
(* and "aware".  Aware datetimes compare by their UTC instant wall - off,  *)
(* which is what Python does, so the velocity history holds instants.      *)
(***************************************************************************)
EXTENDS Integers, Sequences, FiniteSets, TLC

(***************************************************************************)
(* Fixed-point scales.                                                     *)
(***************************************************************************)
SD == 12000000
RD == 100 * SD
R4 == 10000

(***************************************************************************)
(* Class constants of FraudDetectionService and the configured threshold.  *)
(***************************************************************************)
WEIGHT_AMOUNT == 30
WEIGHT_TIME == 15
WEIGHT_VELOCITY == 25
WEIGHT_CATEGORY == 15
WEIGHT_PATTERN == 15

HIGH_AMOUNT_THRESHOLD == 500000
VERY_HIGH_AMOUNT_THRESHOLD == 2500000
MODERATE_AMOUNT_THRESHOLD == 100000
ROUND_AMOUNT_FLOOR == 10000
VELOCITY_WINDOW_SECONDS == 60
VELOCITY_MAX_TRANSACTIONS == 3
FRAUD_THRESHOLD == 7000

HIGH_RISK_CATEGORIES ==
    {"cryptocurrency", "gambling", "adult services",
     "cash advance", "international transfer", "wire transfer"}

MEDIUM_RISK_CATEGORIES ==
    {"investment", "foreign exchange", "money order",
     "peer transfer", "gift card"}

suspicious_words ==
    {"urgent", "wire", "bitcoin", "crypto", "offshore",
     "anonymous", "untraceable", "dark", "hack"}

(***************************************************************************)
(* Malformed argument values that escape validation.  Each makes the code  *)
(* raise at the stage that first touches it.                               *)
(***************************************************************************)
\* Decimal("NaN"): every ordering comparison raises InvalidOperation.
NaN == -1
\* A category that is no string: (category or "").lower() raises.
NonStrCategory == "<non-str>"
\* description is None.
NoDescription == {"<None>"}
\* A description that is no string: description.lower() raises.
NonStrDescription == {"<non-str>"}

Min(a, b) == IF a <= b THEN a ELSE b
Max(a, b) == IF a >= b THEN a ELSE b

(***************************************************************************)
(* Datetimes.                                                              *)
(***************************************************************************)
Hour == 60 * 60

NoDate == [tz |-> "none", wall |-> 0, off |-> 0]
Naive(w) == [tz |-> "naive", wall |-> w, off |-> 0]
Aware(w, o) == [tz |-> "aware", wall |-> w, off |-> o]

\* The UTC instant of an aware datetime.
Utc(dt) == dt.wall - dt.off
\* datetime.hour: the hour of the wall-clock reading, whatever the offset.
HourOf(dt) == (dt.wall \div 3600) % 24

\* analyze_transaction, lines 76-79: None becomes now(utc), a naive value
\* is stamped UTC as it stands, an aware value is kept with its offset.
NormalizeDate(transaction_date, clock) ==
    IF transaction_date.tz = "none" THEN Aware(clock, 0)
    ELSE IF transaction_date.tz = "naive" THEN Aware(transaction_date.wall, 0)
    ELSE transaction_date

(***************************************************************************)
(* Rounding to four decimals.                                              *)
(***************************************************************************)
\* round(n/d, 4) in units of 1/10000, for 0 <= n and d a multiple of 20000.
Round4(n, d) ==
    LET unit == d \div R4
        q == n \div unit
        r == n % unit
    IN  IF 2 * r > unit THEN q + 1
        ELSE IF 2 * r < unit THEN q
        ELSE IF q % 2 = 0 THEN q ELSE q + 1

(***************************************************************************)
(* The private scoring methods.                                            *)
(***************************************************************************)
\* _score_amount: raises on NaN (reported by AmountRaises).
AmountRaises(amount) == amount = NaN

\* _score_amount with no ramp between the two thresholds.
ScoreAmountFlat(amount) ==
    IF amount >= VERY_HIGH_AMOUNT_THRESHOLD THEN SD
    ELSE IF amount >= HIGH_AMOUNT_THRESHOLD THEN SD \div 2
    ELSE 0

_score_amount(amount) ==
    IF amount >= VERY_HIGH_AMOUNT_THRESHOLD THEN SD
    ELSE IF amount >= HIGH_AMOUNT_THRESHOLD THEN
        LET range_size == VERY_HIGH_AMOUNT_THRESHOLD - HIGH_AMOUNT_THRESHOLD
            position == amount - HIGH_AMOUNT_THRESHOLD
        IN  (SD \div 2) + position * ((SD \div 2) \div range_size)
    ELSE IF amount >= MODERATE_AMOUNT_THRESHOLD THEN
        (amount - MODERATE_AMOUNT_THRESHOLD)
            * (((3 * SD) \div 10) \div (4000 * 100))
    ELSE 0

_score_time(dt) ==
    LET hour == HourOf(dt)
    IN  IF 0 <= hour /\ hour < 5 THEN (8 * SD) \div 10
        ELSE IF hour = 5 \/ hour = 23 THEN (4 * SD) \div 10
        ELSE 0

\* now - timedelta(seconds=60) works on the wall-clock fields and raises
\* OverflowError when the result falls before datetime.min.
VelocityRaises(now) == now.wall - VELOCITY_WINDOW_SECONDS < 0

\* GetHistory when the list is found without regard to the user.
GetHistoryAnyKey(store, user_id) ==
    IF DOMAIN store = {} THEN << >>
    ELSE store[CHOOSE k \in DOMAIN store : TRUE]

\* self._user_transactions.get(user_id, [])
GetHistory(store, user_id) ==
    IF user_id \in DOMAIN store THEN store[user_id] ELSE << >>

\* Prune with the comparison t >= cutoff.
PruneInclusive(history, cutoff) == SelectSeq(history, LAMBDA t : t >= cutoff)

\* [t for t in history if t > cutoff]
Prune(history, cutoff) == SelectSeq(history, LAMBDA t : t > cutoff)

\* NewHistory when nothing is pruned.
NewHistoryUnpruned(history, now) == Append(history, Utc(now))

\* The list _score_velocity stores for the user: the pruned history with
\* now appended.
NewHistory(history, now) ==
    Append(Prune(history, Utc(now) - VELOCITY_WINDOW_SECONDS), Utc(now))

\* VelocityScore with the comparison count >= VELOCITY_MAX_TRANSACTIONS.
VelocityScoreInclusive(count) ==
    IF count > VELOCITY_MAX_TRANSACTIONS * 2 THEN SD
    ELSE IF count >= VELOCITY_MAX_TRANSACTIONS THEN
        LET excess == count - VELOCITY_MAX_TRANSACTIONS
        IN  Min(SD, (SD \div 2)
                      + (excess * (SD \div 2)) \div VELOCITY_MAX_TRANSACTIONS)
    ELSE 0

\* The score _score_velocity derives from count = len(history).
VelocityScore(count) ==
    IF count > VELOCITY_MAX_TRANSACTIONS * 2 THEN SD
    ELSE IF count > VELOCITY_MAX_TRANSACTIONS THEN
        LET excess == count - VELOCITY_MAX_TRANSACTIONS
        IN  Min(SD, (SD \div 2)
                      + (excess * (SD \div 2)) \div VELOCITY_MAX_TRANSACTIONS)
    ELSE 0

CategoryRaises(category) == category = NonStrCategory

\* (category or "").lower().strip(), on the category strings of the model.
LowerStrip(category) ==
    CASE category = " Gambling " -> "gambling"
      [] category = "CRYPTOCURRENCY" -> "cryptocurrency"
      [] category = "Gift Card" -> "gift card"
      [] OTHER -> category

_score_category(category) ==
    LET cat_lower == LowerStrip(category)
    IN  IF cat_lower \in HIGH_RISK_CATEGORIES THEN (9 * SD) \div 10
        ELSE IF cat_lower \in MEDIUM_RISK_CATEGORIES THEN (4 * SD) \div 10
        ELSE 0

PatternRaises(description) == description = NonStrDescription

\* _score_pattern without the round-number rule.
PatternKeywordsOnly(description, amount) ==
    LET matches == IF description = NoDescription THEN 0
                   ELSE Cardinality(description \cap suspicious_words)
    IN  IF matches >= 2 THEN (8 * SD) \div 10
        ELSE IF matches = 1 THEN (4 * SD) \div 10
        ELSE 0

\* A description is the set of the words of interest that occur in its
\* lower-cased text (the empty set: a text, possibly empty, with none).
_score_pattern(description, amount) ==
    LET matches == IF description = NoDescription THEN 0
                   ELSE Cardinality(description \cap suspicious_words)
        score == IF matches >= 2 THEN (8 * SD) \div 10
                 ELSE IF matches = 1 THEN (4 * SD) \div 10
                 ELSE 0
        rounded == IF amount > ROUND_AMOUNT_FLOOR /\ amount % 100 = 0
                   THEN Max(score, (15 * SD) \div 100)
                   ELSE score
    IN  Min(SD, rounded)

(***************************************************************************)
(* FraudDetectionService.analyze_transaction.                              *)
(***************************************************************************)
ML_MODEL_VERSION == "1.0.0"

\* The dict of the except branch, lines 160-168.
FailSafe ==
    [risk_score |-> 0,
     is_fraud |-> FALSE,
     detected_anomalies |-> <<"Analysis error occurred">>,
     confidence |-> 0,
     model_version |-> ML_MODEL_VERSION,
     details |-> << >>]

\* score > 0.3 and score > 0.1 on a score in units of 1/SD.
Exceeds(score, tenths) == 10 * score > tenths * SD

\* Anomalies with the comparison score > 0.1.
AnomaliesAtTenth(factor_scores) ==
    (IF Exceeds(factor_scores.amount, 1)
        THEN <<"High transaction amount">> ELSE << >>)
    \o (IF Exceeds(factor_scores.time_of_day, 1)
        THEN <<"Suspicious transaction time">> ELSE << >>)
    \o (IF Exceeds(factor_scores.velocity, 1)
        THEN <<"Rapid transaction activity detected">> ELSE << >>)
    \o (IF Exceeds(factor_scores.category, 1)
        THEN <<"High-risk category">> ELSE << >>)
    \o (IF Exceeds(factor_scores.pattern, 1)
        THEN <<"Suspicious transaction pattern">> ELSE << >>)

\* The anomaly strings in the order the code appends them (the amount, the
\* time and the category that the code formats into three of them are
\* those of the request and are left out).
Anomalies(factor_scores) ==
    (IF Exceeds(factor_scores.amount, 3)
        THEN <<"High transaction amount">> ELSE << >>)
    \o (IF Exceeds(factor_scores.time_of_day, 3)
        THEN <<"Suspicious transaction time">> ELSE << >>)
    \o (IF Exceeds(factor_scores.velocity, 3)
        THEN <<"Rapid transaction activity detected">> ELSE << >>)
    \o (IF Exceeds(factor_scores.category, 3)
        THEN <<"High-risk category">> ELSE << >>)
    \o (IF Exceeds(factor_scores.pattern, 3)
        THEN <<"Suspicious transaction pattern">> ELSE << >>)

\* WeightedRisk with every factor weighted 0.20.
WeightedRiskEqualWeights(factor_scores) ==
    Max(0, Min(RD, 20 * (factor_scores.amount + factor_scores.time_of_day
                         + factor_scores.velocity + factor_scores.category
                         + factor_scores.pattern)))

\* Lines 117-126: the weighted combination, clamped to [0, 1]; units 1/RD.
WeightedRisk(factor_scores) ==
    LET risk_score == WEIGHT_AMOUNT * factor_scores.amount
                      + WEIGHT_TIME * factor_scores.time_of_day
                      + WEIGHT_VELOCITY * factor_scores.velocity
                      + WEIGHT_CATEGORY * factor_scores.category
                      + WEIGHT_PATTERN * factor_scores.pattern
    IN  Max(0, Min(RD, risk_score))

\* IsFraud with a threshold of 0.68.
IsFraudAtSixtyEight(risk_score) == risk_score >= 6800 * (RD \div R4)

\* Line 128: the decision is taken on the clamped, not yet rounded, sum.
IsFraud(risk_score) == risk_score >= FRAUD_THRESHOLD * (RD \div R4)

\* Confidence when every factor above zero is counted.
ConfidenceCountsNonZero(factor_scores, is_fraud) ==
    LET non_zero_factors ==
            Cardinality({f \in DOMAIN factor_scores : factor_scores[f] > 0})
    IN  IF is_fraud THEN Min(9900, 6000 + non_zero_factors * 800)
        ELSE Min(9900, 7000 + (5 - non_zero_factors) * 600)

\* Lines 131-135, in units of 1/10000.
Confidence(factor_scores, is_fraud) ==
    LET non_zero_factors ==
            Cardinality({f \in DOMAIN factor_scores :
                            Exceeds(factor_scores[f], 1)})
    IN  IF is_fraud THEN Min(9900, 6000 + non_zero_factors * 800)
        ELSE Min(9900, 7000 + (5 - non_zero_factors) * 600)

\* HoldLoop when something between the read and the store awaits.
YieldLoop(p) == "free"

\* ReachesStore when the list is stored only by a call that ends well.
StoredOnlyOnSuccess(tx, dt) ==
    /\ ~AmountRaises(tx.amount) /\ ~VelocityRaises(dt)
    /\ ~CategoryRaises(tx.category) /\ ~PatternRaises(tx.description)

\* Whether the call gets as far as storing the user's new history: the
\* amount stage and the cutoff computation come first and may raise.
ReachesStore(tx, dt) == ~AmountRaises(tx.amount) /\ ~VelocityRaises(dt)

\* Raises when the try block ends before the category stage.
RaisesEarlyOnly(tx, dt) ==
    \/ AmountRaises(tx.amount)
    \/ VelocityRaises(dt)

\* Whether any stage raises, which the except clause turns into FailSafe.
Raises(tx, dt) ==
    \/ AmountRaises(tx.amount)
    \/ VelocityRaises(dt)
    \/ CategoryRaises(tx.category)
    \/ PatternRaises(tx.description)

\* LocalHistory when the instant of the call is not appended.
LocalHistoryPrunedOnly(store, tx, dt) ==
    IF ReachesStore(tx, dt)
    THEN Prune(GetHistory(store, tx.user_id),
               Utc(dt) - VELOCITY_WINDOW_SECONDS)
    ELSE << >>

\* Lines 248-253 of _score_velocity, for a call that gets there: the list
\* built from the user's stored history, before it is stored.
LocalHistory(store, tx, dt) ==
    IF ReachesStore(tx, dt)
    THEN NewHistory(GetHistory(store, tx.user_id), dt)
    ELSE << >>

\* analyze_transaction for the normalised date dt, given the list
\* `history` that _score_velocity built.  The value has the dict returned
\* (result), whether the except clause ran (error), whether the list was
\* stored (stored) and the locals now and count of _score_velocity.
analyze_transaction(history, tx, dt) ==
    LET count == Len(history)
        factor_scores ==
            [amount |-> _score_amount(tx.amount),
             time_of_day |-> _score_time(dt),
             velocity |-> VelocityScore(count),
             category |-> _score_category(tx.category),
             pattern |-> _score_pattern(tx.description, tx.amount)]
        risk_score == WeightedRisk(factor_scores)
        is_fraud == IsFraud(risk_score)
    IN  [result |->
            IF Raises(tx, dt) THEN FailSafe
            ELSE [risk_score |-> Round4(risk_score, RD),
                  is_fraud |-> is_fraud,
                  detected_anomalies |-> Anomalies(factor_scores),
                  confidence |-> Confidence(factor_scores, is_fraud),
                  model_version |-> ML_MODEL_VERSION,
                  details |-> factor_scores],
         error |-> Raises(tx, dt),
         stored |-> ReachesStore(tx, dt),
         now |-> Utc(dt),
         count |-> count]

(***************************************************************************)
(* FraudDetectionService.analyze_legacy.                                   *)
(*                                                                         *)
(* A timestamp string is a record [wall, suffix]: the wall-clock reading   *)
(* that its date and time part spells, and the text that follows it ("",   *)
(* "Z" or an offset such as "+05:00").  A legacy request is a record       *)
(* [user_id, amount, timestamp].                                           *)
(***************************************************************************)
Ts(wall, suffix) == [wall |-> wall, suffix |-> suffix]
\* A string that is no ISO-8601 timestamp.
Unparseable == Ts(0, "<garbage>")
\* A timestamp that is no string: ts.endswith raises AttributeError.
NonStrTimestamp == Ts(0, "<non-str>")

\* Lines 181-183: a trailing "Z" becomes "+00:00".
ReplaceZ(ts) == IF ts.suffix = "Z" THEN Ts(ts.wall, "+00:00") ELSE ts

\* The UTC offset that an offset text spells, in seconds.
OffsetOf(suffix) ==
    CASE suffix = "+00:00" -> 0
      [] suffix = "+05:00" -> 5 * Hour
      [] suffix = "-10:00" -> 0 - 10 * Hour

\* datetime.fromisoformat: naive without an offset text, aware with one;
\* it raises ValueError on any other text.
FromIsoRaises(ts) == ts.suffix \notin {"", "+00:00", "+05:00", "-10:00"}

fromisoformat(ts) ==
    IF ts.suffix = "" THEN Naive(ts.wall)
    ELSE Aware(ts.wall, OffsetOf(ts.suffix))

\* Lines 181-189: the datetime handed to analyze_transaction; a text that
\* does not parse is replaced by now(utc), a naive value is stamped UTC.
LegacyDate(timestamp, clock) ==
    LET ts == ReplaceZ(timestamp)
        dt == IF FromIsoRaises(ts) THEN Aware(clock, 0) ELSE fromisoformat(ts)
    IN  IF dt.tz = "naive" THEN Aware(dt.wall, 0) ELSE dt

\* Whether analyze_legacy fails outside analyze_transaction, which its own
\* except clause (lines 209-215) catches.
LegacyRaises(request) == request.timestamp = NonStrTimestamp

\* Decimal(str(amount)): str gives the shortest decimal text that reads
\* back as the same float and Decimal reads that text exactly, so the
\* amount keeps its value; nan stays NaN.
DecimalOfStr(amount) == IF amount = NaN THEN NaN ELSE amount

\* LegacyCoreTx when the call passes a description.
LegacyCoreTxDescribed(request, dt) ==
    [service |-> "fraud_service",
     user_id |-> ToString(request.user_id),
     amount |-> DecimalOfStr(request.amount),
     category |-> "",
     transaction_date |-> dt,
     description |-> {"urgent", "bitcoin"}]

\* Lines 191-196: the arguments of the call of analyze_transaction, with
\* the defaults category "" and description None of lines 61-63.
LegacyCoreTx(request, dt) ==
    [service |-> "fraud_service",
     user_id |-> ToString(request.user_id),
     amount |-> DecimalOfStr(request.amount),
     category |-> "",
     transaction_date |-> dt,
     description |-> NoDescription]

\* "; ".join(list) for a list that is not empty.
RECURSIVE Join(_)
Join(list) ==
    IF Len(list) = 1 THEN list[1]
    ELSE list[1] \o "; " \o Join(Tail(list))

\* The dict of the except branch, lines 211-215.
LegacyError ==
    [is_fraudulent |-> FALSE, reason |-> <<"Analysis error">>, risk_score |-> 0]

\* LegacyResponse when the reason is the first anomaly alone.
LegacyResponseFirstAnomaly(result) ==
    [is_fraudulent |-> result.is_fraud,
     reason |-> IF result.detected_anomalies # << >>
                THEN <<result.detected_anomalies[1]>> ELSE << >>,
     risk_score |-> result.risk_score]

\* Lines 198-207: the legacy response; reason is a one-element sequence,
\* or << >> for None.
LegacyResponse(result) ==
    [is_fraudulent |-> result.is_fraud,
     reason |-> IF result.detected_anomalies # << >>
                THEN <<Join(result.detected_anomalies)>> ELSE << >>,
     risk_score |-> result.risk_score]

\* analyze_legacy for the datetime dt of LegacyDate, given the list
\* `history` that _score_velocity built.  The value has the response, the
\* dict analyze_transaction returned (rule; << >> when it was not called)
\* and the fields of analyze_transaction's value.
analyze_legacy(history, request, dt) ==
    IF LegacyRaises(request)
    THEN [response |-> LegacyError, rule |-> << >>, error |-> TRUE,
          stored |-> FALSE, now |-> 0, count |-> 0]
    ELSE LET a == analyze_transaction(history, LegacyCoreTx(request, dt), dt)
         IN  [response |-> LegacyResponse(a.result), rule |-> a.result,
              error |-> a.error, stored |-> a.stored,
              now |-> a.now, count |-> a.count]

(***************************************************************************)
(* The standalone fraud-detection service.  Responses are records          *)
(* [is_fraudulent, reason, risk_score] like those of analyze_legacy.       *)
(***************************************************************************)
\* fraud-detection/main.py, detect: the amount rule, then the parse, then
\* the hour rule.
detect(transaction) ==
    IF transaction.amount > 500000
    THEN [is_fraudulent |-> TRUE,
          reason |-> <<"High single transaction amount">>,
          risk_score |-> 9000]
    ELSE LET ts == ReplaceZ(transaction.timestamp)
         IN  IF FromIsoRaises(ts)
             THEN [is_fraudulent |-> FALSE,
                   reason |-> <<"Timestamp parse error">>,
                   risk_score |-> 1000]
             ELSE IF HourOf(fromisoformat(ts)) \in 0..4
             THEN [is_fraudulent |-> TRUE,
                   reason |-> <<"Suspicious transaction time">>,
                   risk_score |-> 6000]
             ELSE [is_fraudulent |-> FALSE, reason |-> << >>,
                   risk_score |-> 0]

\* FraudDetectionEngine._parse_iso_timestamp, which lets the ValueError of
\* fromisoformat (and the AttributeError of a non-string) through.
ParseIsoRaises(timestamp) ==
    \/ timestamp = NonStrTimestamp
    \/ FromIsoRaises(ReplaceZ(timestamp))

_parse_iso_timestamp(timestamp) ==
    LET dt == fromisoformat(ReplaceZ(timestamp))
    IN  IF dt.tz = "naive" THEN Aware(dt.wall, 0) ELSE dt

\* FraudDetectionEngine._is_rapid_activity: the list it stores for the
\* user, and its verdict.
RapidHistory(store, user_id, now_ts) ==
    Append(Prune(GetHistory(store, user_id), Utc(now_ts) - 60), Utc(now_ts))

_is_rapid_activity(store, user_id, now_ts) ==
    Len(RapidHistory(store, user_id, now_ts)) > 3

\* FraudDetectionEngine.analyze_transaction on the engine's dict `store`:
\* the response and the dict afterwards.  The timestamp is parsed before
\* the amount rule, and every exception ends in the fail-safe response.
EngineAnalyzeTransaction(store, user_id, amount, timestamp) ==
    IF ParseIsoRaises(timestamp)
    THEN [response |-> [is_fraudulent |-> FALSE,
                        reason |-> <<"Analysis error">>,
                        risk_score |-> 5000],
          store |-> store]
    ELSE LET trans_time == _parse_iso_timestamp(timestamp)
         IN  IF amount > 500000
             THEN [response |-> [is_fraudulent |-> TRUE,
                                 reason |-> <<"High single transaction amount">>,
                                 risk_score |-> 9000],
                   store |-> store]
             ELSE IF VelocityRaises(trans_time)
             THEN [response |-> [is_fraudulent |-> FALSE,
                                 reason |-> <<"Analysis error">>,
                                 risk_score |-> 5000],
                   store |-> store]
             ELSE [response |->
                      IF _is_rapid_activity(store, user_id, trans_time)
                      THEN [is_fraudulent |-> TRUE,
                            reason |->
                               <<"Too many transactions in the last minute">>,
                            risk_score |-> 8000]
                      ELSE [is_fraudulent |-> FALSE,
                            reason |-> <<"No rules matched">>,
                            risk_score |-> 1000],
                   store |-> (user_id :> RapidHistory(store, user_id,
                                                      trans_time)) @@ store]

(***************************************************************************)
(* ModelManager.predict and the blend step of the /analyze handler.        *)
(***************************************************************************)
\* predict: `raw` is what decision_function gives, in units of 1/10000, as
\* a one-element sequence, or << >> when it raises.  The value is the
\* anomaly score as a one-element sequence, or << >> for None.
predict(loaded, raw) ==
    IF ~loaded THEN << >>
    ELSE IF raw = << >> THEN << >>
    ELSE << Max(0, Min(R4, (R4 \div 2) - raw[1])) >>

\* Blend when is_fraud is not recomputed.
BlendKeepsDecision(result, ml_score) ==
    IF ml_score = << >> THEN result
    ELSE [result EXCEPT !.risk_score =
             Round4(7 * result.risk_score + 3 * ml_score[1], 10 * R4)]

\* Blend when the confidence follows the blended decision.
BlendRecomputesConfidence(result, ml_score) ==
    IF ml_score = << >> THEN result
    ELSE LET blended == Round4(7 * result.risk_score + 3 * ml_score[1], 10 * R4)
             is_fraud == blended >= FRAUD_THRESHOLD
             above == Cardinality({f \in DOMAIN result.details :
                                      Exceeds(result.details[f], 1)})
         IN  [result EXCEPT
                 !.risk_score = blended,
                 !.is_fraud = is_fraud,
                 !.confidence =
                    IF is_fraud THEN Min(9900, 6000 + above * 800)
                    ELSE Min(9900, 7000 + (5 - above) * 600)]

\* fraud.py lines 75-79: the dict after the blend.
Blend(result, ml_score) ==
    IF ml_score = << >> THEN result
    ELSE LET blended == Round4(7 * result.risk_score + 3 * ml_score[1], 10 * R4)
         IN  [result EXCEPT !.risk_score = blended,
                            !.is_fraud = (blended >= FRAUD_THRESHOLD)]

\* fraud.py lines 82-89: the response the handler builds from the dict.
Response(result) ==
    [risk_score |-> result.risk_score,
     is_fraud |-> result.is_fraud,
     detected_anomalies |-> result.detected_anomalies,
     confidence |-> result.confidence,
     model_version |-> result.model_version]

(***************************************************************************)
(* MongoDBClient: the documents log_analysis and log_alert insert.         *)
(***************************************************************************)
\* datetime.now(timezone.utc) at the insert: 0001-01-04 00:00:00.
LogClocks == {3 * 24 * Hour}

\* {**analysis_result, "logged_at": now}
AnalysisDocument(analysis_result, clock) ==
    ("logged_at" :> clock) @@ analysis_result

\* {**analysis_result, "alert_status": "pending", "reviewed": False,
\*  "created_at": now}
AlertDocument(analysis_result, clock) ==
    ("alert_status" :> "pending") @@ ("reviewed" :> FALSE)
        @@ ("created_at" :> clock) @@ analysis_result

\* log_analysis and log_alert: nothing is inserted when the client is not
\* connected, or when insert_one raises (`inserted` false), which the
\* method logs and swallows.
Insert(collection, connected, inserted, doc) ==
    IF connected /\ inserted THEN Append(collection, doc) ELSE collection

(***************************************************************************)
(* State.                                                                  *)
(*   _user_transactions  the class attribute of FraudDetectionService: one *)
(*                       dict, user_id -> list of instants, which every    *)
(*                       instance reaches through self                     *)
(*   _loaded             ModelManager._loaded, set at start-up             *)
(*   pc, req             per request handler: where the coroutine is, and  *)
(*                       the request it serves                             *)
(*   rule                the dict analyze_transaction returned             *)
(*   ml_score            what predict returned to the handler              *)
(*   result              the handler's result dict after the blend step    *)
(*   loop                the handler coroutine that the event loop thread  *)
(*                       is running, or "free"                             *)
(*   local               per handler, inside analyze_transaction: the      *)
(*                       normalised date and the list that _score_velocity *)
(*                       has built and not yet stored                      *)
(*   frame               per handler: whether the except clause ran, and   *)
(*                       the position of the call in its user's record     *)
(*   calls               per user, the scoring calls that stored a history *)
(*                       so far, in order: the instant and the count each  *)
(*                       one computed (a record of what happened)          *)
(*   _connected          MongoDBClient._connected, set at start-up         *)
(*   fraud_analyses,     the documents inserted into the two collections,  *)
(*   fraud_alerts        in order                                          *)
(* and of the standalone fraud-detection service:                          *)
(*   user_transactions   the instance attribute of a FraudDetectionEngine  *)
(*   engine_response     the last request the engine analysed and what it  *)
(*                       returned                                          *)
(*   detect_response     the last request the standalone /detect handler   *)
(*                       served and its response                           *)
(***************************************************************************)
VARIABLES _user_transactions, _loaded, loop, pc, req, local, rule, ml_score,
          result, frame, calls,
          _connected, fraud_analyses, fraud_alerts,
          user_transactions, engine_response, detect_response

\* The variables of python-fraud-service and those of the standalone
\* service.
service_vars == <<_user_transactions, _loaded, loop, pc, req, local, rule,
                  ml_score, result, frame, calls>>
standalone_vars == <<user_transactions, engine_response, detect_response>>
\* The variables of the persistence sink.
mongo_vars == <<_connected, fraud_analyses, fraud_alerts>>

vars == <<_user_transactions, _loaded, loop, pc, req, local, rule, ml_score,
          result, frame, calls,
          _connected, fraud_analyses, fraud_alerts,
          user_transactions, engine_response, detect_response>>

\* Two users of /analyze and the user of the legacy endpoint, str(7).
Users == {"u1", "u2", "7"}
\* The module-level singleton and a second instance of the class.
Services == {"fraud_service", "second_service"}
\* The handler coroutines that may be in flight together.
Handlers == {"h1", "h2"}

None == << >>
NoFrame == [error |-> FALSE, pos |-> 0]

\* self._user_transactions: no instance has an attribute of that name, so
\* the lookup ends at the class attribute, for every instance alike.
Tracker(service) == _user_transactions

RECURSIVE TotalCalls(_)
TotalCalls(S) ==
    IF S = {} THEN 0
    ELSE LET u == CHOOSE x \in S : TRUE
         IN  Len(calls[u]) + TotalCalls(S \ {u})

\* The state after start-up: `loaded` and `connected` are the outcomes
\* that load_model and connect may have had.
InitWith(handlers, loaded, connected) ==
    /\ _user_transactions = << >>
    /\ _loaded \in loaded
    /\ _connected \in connected
    /\ fraud_analyses = << >>
    /\ fraud_alerts = << >>
    /\ loop = "free"
    /\ pc = [p \in handlers |-> "idle"]
    /\ req = [p \in handlers |-> None]
    /\ local = [p \in handlers |-> None]
    /\ rule = [p \in handlers |-> None]
    /\ ml_score = [p \in handlers |-> None]
    /\ result = [p \in handlers |-> None]
    /\ frame = [p \in handlers |-> NoFrame]
    /\ calls = [u \in Users |-> << >>]
    /\ user_transactions = << >>
    /\ engine_response = None
    /\ detect_response = None

\* Start-up when MongoDB could not be reached.
InitFor(handlers, loaded) == InitWith(handlers, loaded, {FALSE})

\* A request reaches the service and its handler coroutine is created.
\* max_calls bounds the scoring calls of a run.
Receive(p, txs, max_calls) ==
    /\ pc[p] = "idle"
    /\ TotalCalls(Users)
          + Cardinality({q \in DOMAIN pc : pc[q] \in {"pending", "scoring"}})
          < max_calls
    /\ \E tx \in txs : req' = [req EXCEPT ![p] = tx]
    /\ pc' = [pc EXCEPT ![p] = "pending"]
    /\ UNCHANGED <<_user_transactions, _loaded, loop, local, rule, ml_score,
                   result, frame, calls>>
    /\ UNCHANGED standalone_vars
    /\ UNCHANGED mongo_vars

\* Who holds the event loop thread while handler p is between the read and
\* the store of _score_velocity: p itself.  The handler is a coroutine that
\* calls analyze_transaction as a plain function, and nothing from the
\* start of the handler to the end of the blend step awaits.
HoldLoop(p) == p

\* fraud.py line 57 into fraud_detector.py lines 75-253: the event loop
\* starts the handler, which runs analyze_transaction as far as the list
\* that _score_velocity builds from the user's stored history.
Begin(p, clocks) ==
    /\ pc[p] = "pending"
    /\ loop = "free"
    /\ \E clock \in clocks :
          LET tx == req[p]
              dt == NormalizeDate(tx.transaction_date, clock)
          IN  local' = [local EXCEPT ![p] =
                           [dt |-> dt,
                            history |->
                               LocalHistory(Tracker(tx.service), tx, dt)]]
    /\ loop' = HoldLoop(p)
    /\ pc' = [pc EXCEPT ![p] = "scoring"]
    /\ UNCHANGED <<_user_transactions, _loaded, req, rule, ml_score, result,
                   frame, calls>>
    /\ UNCHANGED standalone_vars
    /\ UNCHANGED mongo_vars

\* fraud_detector.py lines 254-168 and fraud.py lines 67-91: the store of
\* the list, the rest of the analysis, the optional blend and the response,
\* up to the handler's first await, which frees the event loop.
Finish(p, raws) ==
    /\ pc[p] = "scoring"
    /\ loop \in {p, "free"}
    /\ \E raw \in raws :
          LET tx == req[p]
              a == analyze_transaction(local[p].history, tx, local[p].dt)
              ml == predict(_loaded, raw)
          IN  /\ _user_transactions' =
                    IF a.stored
                    THEN (tx.user_id :> local[p].history) @@ _user_transactions
                    ELSE _user_transactions
              /\ rule' = [rule EXCEPT ![p] = a.result]
              /\ ml_score' = [ml_score EXCEPT ![p] = ml]
              /\ result' = [result EXCEPT ![p] = Blend(a.result, ml)]
              /\ calls' = IF a.stored
                          THEN [calls EXCEPT ![tx.user_id] =
                                   Append(@, [now |-> a.now,
                                              count |-> a.count])]
                          ELSE calls
              /\ frame' = [frame EXCEPT ![p] =
                              [error |-> a.error,
                               pos |-> IF a.stored
                                       THEN Len(calls[tx.user_id]) + 1
                                       ELSE 0]]
    /\ loop' = "free"
    /\ pc' = [pc EXCEPT ![p] = "persist"]
    /\ UNCHANGED <<_loaded, req, local>>
    /\ UNCHANGED standalone_vars
    /\ UNCHANGED mongo_vars

\* fraud.py lines 91-105: the awaits on the persistence sink, which
\* inserts the dict into fraud_analyses and, for a fraud result, into
\* fraud_alerts (failures are swallowed), and the return of the response.
Persist(p) ==
    /\ pc[p] = "persist"
    /\ loop = "free"
    /\ \E analysis_inserted, alert_inserted \in BOOLEAN, clock \in LogClocks :
          /\ fraud_analyses' =
                Insert(fraud_analyses, _connected, analysis_inserted,
                       AnalysisDocument(result[p], clock))
          /\ fraud_alerts' =
                IF result[p].is_fraud
                THEN Insert(fraud_alerts, _connected, alert_inserted,
                            AlertDocument(result[p], clock))
                ELSE fraud_alerts
    /\ pc' = [pc EXCEPT ![p] = "idle"]
    /\ req' = [req EXCEPT ![p] = None]
    /\ local' = [local EXCEPT ![p] = None]
    /\ rule' = [rule EXCEPT ![p] = None]
    /\ ml_score' = [ml_score EXCEPT ![p] = None]
    /\ result' = [result EXCEPT ![p] = None]
    /\ frame' = [frame EXCEPT ![p] = NoFrame]
    /\ UNCHANGED <<_user_transactions, _loaded, loop, calls, _connected>>
    /\ UNCHANGED standalone_vars

(***************************************************************************)
(* The legacy /detect handler of python-fraud-service (main.py).           *)
(***************************************************************************)
\* main.py lines 96-97: a legacy request reaches the service.
ReceiveLegacy(p, requests, max_calls) == Receive(p, requests, max_calls)

\* main.py line 104 into fraud_detector.py lines 179-196 and 75-253: the
\* event loop starts the handler, which runs analyze_legacy as far as the
\* list that _score_velocity builds.
BeginLegacy(p, clocks) ==
    /\ pc[p] = "pending"
    /\ loop = "free"
    /\ \E clock \in clocks :
          LET request == req[p]
              dt == IF LegacyRaises(request) THEN NoDate
                    ELSE NormalizeDate(LegacyDate(request.timestamp, clock),
                                       clock)
          IN  local' = [local EXCEPT ![p] =
                           [dt |-> dt,
                            history |->
                               IF LegacyRaises(request) THEN << >>
                               ELSE LocalHistory(Tracker("fraud_service"),
                                                 LegacyCoreTx(request, dt),
                                                 dt)]]
    /\ loop' = HoldLoop(p)
    /\ pc' = [pc EXCEPT ![p] = "scoring"]
    /\ UNCHANGED <<_user_transactions, _loaded, req, rule, ml_score, result,
                   frame, calls>>
    /\ UNCHANGED standalone_vars
    /\ UNCHANGED mongo_vars

\* fraud_detector.py lines 254-168 and 198-215, main.py lines 104-112: the
\* store of the list, the rest of the analysis and the mapping to the
\* legacy response, up to the handler's await.  There is no blend step.
FinishLegacy(p) ==
    /\ pc[p] = "scoring"
    /\ loop \in {p, "free"}
    /\ LET request == req[p]
           user == ToString(request.user_id)
           a == analyze_legacy(local[p].history, request, local[p].dt)
       IN  /\ _user_transactions' =
                 IF a.stored
                 THEN (user :> local[p].history) @@ _user_transactions
                 ELSE _user_transactions
           /\ rule' = [rule EXCEPT ![p] = a.rule]
           /\ result' = [result EXCEPT ![p] = a.response]
           /\ calls' = IF a.stored
                       THEN [calls EXCEPT ![user] =
                                Append(@, [now |-> a.now, count |-> a.count])]
                       ELSE calls
           /\ frame' = [frame EXCEPT ![p] =
                           [error |-> a.error,
                            pos |-> IF a.stored THEN Len(calls[user]) + 1
                                    ELSE 0]]
    /\ loop' = "free"
    /\ pc' = [pc EXCEPT ![p] = "persist"]
    /\ UNCHANGED <<_loaded, req, local, ml_score>>
    /\ UNCHANGED standalone_vars
    /\ UNCHANGED mongo_vars

\* main.py lines 110-120: the await on the persistence sink, which inserts
\* the legacy dict with the endpoint and the user into fraud_analyses, and
\* the return of the response.
ReturnLegacy(p) ==
    /\ pc[p] = "persist"
    /\ loop = "free"
    /\ \E analysis_inserted \in BOOLEAN, clock \in LogClocks :
          fraud_analyses' =
             Insert(fraud_analyses, _connected, analysis_inserted,
                    AnalysisDocument(("endpoint" :> "/detect")
                                        @@ ("user_id" :> req[p].user_id)
                                        @@ result[p],
                                     clock))
    /\ pc' = [pc EXCEPT ![p] = "idle"]
    /\ req' = [req EXCEPT ![p] = None]
    /\ local' = [local EXCEPT ![p] = None]
    /\ rule' = [rule EXCEPT ![p] = None]
    /\ ml_score' = [ml_score EXCEPT ![p] = None]
    /\ result' = [result EXCEPT ![p] = None]
    /\ frame' = [frame EXCEPT ![p] = NoFrame]
    /\ UNCHANGED <<_user_transactions, _loaded, loop, calls, _connected,
                   fraud_alerts>>
    /\ UNCHANGED standalone_vars

(***************************************************************************)
(* The standalone fraud-detection service.                                 *)
(***************************************************************************)
\* fraud-detection/main.py, detect: the handler has no await and keeps no
\* state; one step serves a request.
Detect(requests) ==
    /\ \E transaction \in requests :
          detect_response' = [request |-> transaction,
                              response |-> detect(transaction)]
    /\ UNCHANGED <<user_transactions, engine_response>>
    /\ UNCHANGED service_vars
    /\ UNCHANGED mongo_vars

\* One call of FraudDetectionEngine.analyze_transaction.  max_history
\* bounds the length of a user's list.
EngineAnalyze(requests, max_history) ==
    /\ \E transaction \in requests :
          LET user_id == ToString(transaction.user_id)
              a == EngineAnalyzeTransaction(user_transactions, user_id,
                                            transaction.amount,
                                            transaction.timestamp)
          IN  /\ Len(GetHistory(user_transactions, user_id)) < max_history
              /\ engine_response' = [request |-> transaction,
                                     response |-> a.response]
              /\ user_transactions' = a.store
    /\ UNCHANGED detect_response
    /\ UNCHANGED service_vars
    /\ UNCHANGED mongo_vars

(***************************************************************************)
(* Requests.                                                               *)
(***************************************************************************)
LegacyRequest(user_id, amount, timestamp) ==
    [user_id |-> user_id, amount |-> amount, timestamp |-> timestamp]

Tx(service, user_id, amount, category, transaction_date, description) ==
    [service |-> service, user_id |-> user_id, amount |-> amount,
     category |-> category, transaction_date |-> transaction_date,
     description |-> description]

\* 0001-01-03 02:00:00, in seconds from datetime.min.
T0 == 2 * 24 * Hour + 2 * Hour

(***************************************************************************)
(* Spec: two handler coroutines in flight together, two users, timestamps  *)
(* 30 and 90 seconds apart, no ML model.                                   *)
(***************************************************************************)
MaxCalls == 4

SpecTxs ==
    {Tx("fraud_service", u, 5000, "", Aware(T0 + d, 0), NoDescription) :
        u \in Users, d \in {0, 30, 90}}

Init == InitFor(Handlers, {FALSE})

Next ==
    \E p \in Handlers :
        \/ Receive(p, SpecTxs, MaxCalls)
        \/ Begin(p, {T0})
        \/ Finish(p, {None})
        \/ Persist(p)

Spec == Init /\ [][Next]_vars

(***************************************************************************)
(* SpecVelocity: one handler, one user, both service instances, a cluster  *)
(* of timestamps within 10 seconds and two more than a minute later.       *)
(***************************************************************************)
MaxCallsV == 5

VelocityTxs ==
    {Tx(s, "u1", 5000, "", Aware(T0 + d, 0), NoDescription) :
        s \in Services, d \in {0, 5, 10, 65, 71}}

InitVelocity == InitFor({"h1"}, {FALSE})

NextVelocity ==
    \/ Receive("h1", VelocityTxs, MaxCallsV)
    \/ Begin("h1", {T0})
    \/ Finish("h1", {None})
    \/ Persist("h1")

SpecVelocity == InitVelocity /\ [][NextVelocity]_vars

(***************************************************************************)
(* SpecScore: one handler, one user, requests that vary the amount, the    *)
(* category, the description and the date (naive, with an offset, absent,  *)
(* malformed), with and without the ML model.                              *)
(***************************************************************************)
MaxCallsS == 4

ScoreAmounts == {5000, 150050, 450000, 600000, 1910500, 3000000, NaN}
ScoreCategories ==
    {"", "cryptocurrency", " Gambling ", "investment", NonStrCategory}
ScoreDescriptions ==
    {NoDescription, {}, {"urgent", "bitcoin"}, {"wire"}, NonStrDescription}
ScoreDates ==
    {Naive(T0),                          \* 02:00, no offset given
     Aware(T0 + 5 * Hour, 5 * Hour),     \* 07:00+05:00, 02:00 UTC
     Aware(T0, 0 - 10 * Hour),           \* 02:00-10:00, 12:00 UTC
     Aware(T0 + 10 * Hour, 0),           \* 12:00 UTC
     Aware(T0 + Hour, 0),                \* 03:00 UTC
     Aware(T0 + 3 * Hour, 0),            \* 05:00 UTC
     NoDate,                             \* now(utc)
     Naive(30)}                          \* 0001-01-01 00:00:30

ScoreTxs ==
    {Tx("fraud_service", "u1", a, c, Aware(T0, 0), d) :
        a \in ScoreAmounts, c \in ScoreCategories, d \in ScoreDescriptions}
    \cup
    {Tx("fraud_service", "u1", a, "", t, NoDescription) :
        a \in {5000, 3000000}, t \in ScoreDates}

\* decision_function outcomes: it raises, or gives -0.6, 0.0 or 0.6.
ScoreRaws == {None, <<0 - 6000>>, <<0>>, <<6000>>}

InitScore == InitFor({"h1"}, BOOLEAN)

NextScore ==
    \/ Receive("h1", ScoreTxs, MaxCallsS)
    \/ Begin("h1", {T0 + 10 * Hour})
    \/ Finish("h1", ScoreRaws)
    \/ Persist("h1")

SpecScore == InitScore /\ [][NextScore]_vars

(***************************************************************************)
(* Amounts on and next to the band boundaries of _score_amount, scored by  *)
(* two handlers so that two results can be compared.                       *)
(***************************************************************************)
MaxCallsA == 2

BoundaryAmounts ==
    {99999, 100000, 100001, 499999, 500000, 500001, 1500000,
     2499999, 2500000, 2500001, 9999900}

AmountTxs ==
    {Tx("fraud_service", "u1", a, "", Aware(T0 + 10 * Hour, 0), NoDescription) :
        a \in BoundaryAmounts}

InitAmount == InitFor(Handlers, {FALSE})

NextAmount ==
    \E p \in Handlers :
        \/ Receive(p, AmountTxs, MaxCallsA)
        \/ Begin(p, {T0})
        \/ Finish(p, {None})
        \/ Persist(p)

SpecAmount == InitAmount /\ [][NextAmount]_vars

(***************************************************************************)
(* SpecLegacy: one handler serving legacy requests of one user, with       *)
(* timestamps of every form and enough calls to fill the velocity ramp.    *)
(***************************************************************************)
MaxCallsL == 7

LegacyAmounts == {10050, 600000, 3000000, NaN}
LegacyTimestamps ==
    {Ts(T0, "Z"),                        \* 02:00:00Z
     Ts(T0, "+05:00"),                   \* 02:00:00+05:00
     Ts(T0 + 10 * Hour, ""),             \* 12:00:00, no offset
     Unparseable,
     NonStrTimestamp}

LegacyRequests ==
    {LegacyRequest(7, a, t) : a \in LegacyAmounts, t \in LegacyTimestamps}

InitLegacy == InitFor({"h1"}, {TRUE})

NextLegacy ==
    \/ ReceiveLegacy("h1", LegacyRequests, MaxCallsL)
    \/ BeginLegacy("h1", {T0 + 10 * Hour})
    \/ FinishLegacy("h1")
    \/ ReturnLegacy("h1")

SpecLegacy == InitLegacy /\ [][NextLegacy]_vars

(***************************************************************************)
(* SpecDetect: the three legacy entry points side by side: the legacy      *)
(* handler of python-fraud-service, the standalone /detect handler and a   *)
(* FraudDetectionEngine, on amounts below and above 5000.                  *)
(***************************************************************************)
MaxCallsD == 1
MaxEngineHistory == 4

DetectRequests ==
    {LegacyRequest(7, a, t) :
        a \in {10050, 500000, 600000},
        t \in {Ts(T0, "Z"), Ts(T0 + 10 * Hour, ""), Unparseable}}

InitDetect == InitFor({"h1"}, {TRUE})

NextDetect ==
    \/ ReceiveLegacy("h1", DetectRequests, MaxCallsD)
    \/ BeginLegacy("h1", {T0 + 10 * Hour})
    \/ FinishLegacy("h1")
    \/ ReturnLegacy("h1")
    \/ Detect(DetectRequests)
    \/ EngineAnalyze(DetectRequests, MaxEngineHistory)

SpecDetect == InitDetect /\ [][NextDetect]_vars

(***************************************************************************)
(* SpecFraud: one handler, one user, requests that bring each factor to    *)
(* its highest score or to zero, and enough calls within the window for    *)
(* the velocity score to reach 1.0.                                        *)
(***************************************************************************)
MaxCallsF == 6

FraudTxs ==
    {Tx("fraud_service", "u1", a, c, Aware(T0 + h * Hour, 0), d) :
        a \in {5000, 2500001, 3000000},
        c \in {"", "cryptocurrency"},
        h \in {0, 10},
        d \in {NoDescription, {"urgent", "bitcoin"}}}

InitFraud == InitFor({"h1"}, {FALSE})

NextFraud ==
    \/ Receive("h1", FraudTxs, MaxCallsF)
    \/ Begin("h1", {T0})
    \/ Finish("h1", {None})
    \/ Persist("h1")

SpecFraud == InitFraud /\ [][NextFraud]_vars

(***************************************************************************)
(* SpecBlend: one handler with the ML model loaded, MongoDB connected or   *)
(* not, requests at 02:00 UTC for 25000.01 in a high-risk category with    *)
(* and without suspicious words, so that the rule-based result is just    *)
(* below the threshold on the first call and above it on the fourth.       *)
(***************************************************************************)
MaxCallsB == 4

BlendTxs ==
    {Tx("fraud_service", "u1", 2500001, "cryptocurrency", Aware(T0, 0), d) :
        d \in {NoDescription, {"urgent", "bitcoin"}}}

\* decision_function outcomes: it raises, or gives -0.6 or 0.6.
BlendRaws == {None, <<0 - 6000>>, <<6000>>}

InitBlend == InitWith({"h1"}, {TRUE}, BOOLEAN)

NextBlend ==
    \/ Receive("h1", BlendTxs, MaxCallsB)
    \/ Begin("h1", {T0})
    \/ Finish("h1", BlendRaws)
    \/ Persist("h1")

SpecBlend == InitBlend /\ [][NextBlend]_vars

(***************************************************************************)
(* Properties.                                                             *)
(***************************************************************************)
\* A handler whose analysis has returned and whose response is not yet out.
Returned(p) == pc[p] = "persist"
\* The step in which handler p runs its analysis.
Scores(p) == pc[p] = "scoring" /\ pc'[p] = "persist"
\* The instant the call of handler p scored, once it has stored a history.
NowOf(p) == calls[req[p].user_id][frame[p].pos].now
CountOf(p) == calls[req[p].user_id][frame[p].pos].count
\* How often instant t occurs in a history.
Occurrences(history, t) ==
    Cardinality({i \in DOMAIN history : history[i] = t})

\* A request with a field that makes some stage of the analysis raise.
Malformed(tx) ==
    \/ tx.amount = NaN
    \/ tx.category = NonStrCategory
    \/ tx.description = NonStrDescription
    \/ /\ tx.transaction_date.tz # "none"
       /\ tx.transaction_date.wall < VELOCITY_WINDOW_SECONDS

\* C1: when a stage of analyze_transaction raises (the request has a
\* malformed field), the call still returns, and what it returns is exactly
\* the fail-safe dict: risk_score 0.0, is_fraud false, the single anomaly
\* "Analysis error occurred", confidence 0.0.
C1_FailSafeOnError ==
    \A p \in DOMAIN pc :
        (Returned(p) /\ Malformed(req[p])) =>
            /\ rule[p] # None
            /\ rule[p].risk_score = 0
            /\ rule[p].is_fraud = FALSE
            /\ rule[p].detected_anomalies = <<"Analysis error occurred">>
            /\ rule[p].confidence = 0

\* C1 witness: an error in the last stage (pattern), after the velocity
\* stage has stored a history that already held three instants, on a
\* request that would otherwise score high.
C1_Witness ==
    \E p \in DOMAIN pc :
        /\ Returned(p)
        /\ req[p].description = NonStrDescription
        /\ req[p].amount = 3000000
        /\ req[p].category = "cryptocurrency"
        /\ frame[p].pos = 4
        /\ rule[p].detected_anomalies = <<"Analysis error occurred">>

\* C2: two scoring calls for the same user that are in flight together,
\* were scored one right after the other and have timestamps less than 60
\* seconds apart: once both have returned (and no later call has touched
\* the user), the stored history holds both instants and the call scored
\* second computed a count of at least two.
C2_NoLostUpdate ==
    \A p, q \in DOMAIN pc :
        (/\ p # q
         /\ Returned(p) /\ Returned(q)
         /\ frame[p].pos > 0 /\ frame[q].pos > 0
         /\ req[p].user_id = req[q].user_id
         /\ frame[q].pos = frame[p].pos + 1
         /\ frame[q].pos = Len(calls[req[q].user_id])
         /\ NowOf(p) - NowOf(q) < VELOCITY_WINDOW_SECONDS
         /\ NowOf(q) - NowOf(p) < VELOCITY_WINDOW_SECONDS)
        => LET history == _user_transactions[req[p].user_id]
           IN  /\ Occurrences(history, NowOf(p)) >= 1
               /\ Occurrences(history, NowOf(q)) >= 1
               /\ NowOf(p) = NowOf(q) => Occurrences(history, NowOf(p)) >= 2
               /\ CountOf(q) >= CountOf(p) + 1
               /\ CountOf(q) = Len(history)

\* C2 witness: both handlers have returned for the same user, the second
\* with the earlier timestamp, and the history holds the two instants.
C2_Witness ==
    \E p, q \in DOMAIN pc :
        /\ p # q
        /\ Returned(p) /\ Returned(q)
        /\ req[p].user_id = "u1" /\ req[q].user_id = "u1"
        /\ frame[p].pos = 1 /\ frame[q].pos = 2
        /\ NowOf(p) = T0 + 30 /\ NowOf(q) = T0
        /\ _user_transactions["u1"] = <<T0 + 30, T0>>

\* The previous entries strictly greater than the cutoff, in their order.
RECURSIVE LaterThan(_, _)
LaterThan(history, cutoff) ==
    IF history = << >> THEN << >>
    ELSE IF Head(history) > cutoff
         THEN <<Head(history)>> \o LaterThan(Tail(history), cutoff)
         ELSE LaterThan(Tail(history), cutoff)

\* C3: a scoring call for user U at instant now stores, as U's history,
\* the previous entries (none for an absent user) strictly greater than
\* now - 60, in their order, followed by now; the count is the length of
\* what is stored.
C3_StoresPrunedThenNow ==
    [][\A p \in DOMAIN pc :
          (Scores(p) /\ frame'[p].pos > 0) =>
             LET u == req[p].user_id
                 old == IF u \in DOMAIN _user_transactions
                        THEN _user_transactions[u] ELSE << >>
                 call == calls'[u][frame'[p].pos]
             IN  /\ u \in DOMAIN _user_transactions'
                 /\ _user_transactions'[u] =
                       LaterThan(old, call.now - 60) \o <<call.now>>
                 /\ call.count = Len(_user_transactions'[u])]_vars

\* C3 witness: the same instant scored twice (counts 1 and 2), then a call
\* exactly 60 seconds later, which drops both and counts 1.
C3_Witness ==
    /\ Len(calls["u1"]) = 3
    /\ calls["u1"][1] = [now |-> T0 + 5, count |-> 1]
    /\ calls["u1"][2] = [now |-> T0 + 5, count |-> 2]
    /\ calls["u1"][3] = [now |-> T0 + 65, count |-> 1]
    /\ _user_transactions["u1"] = <<T0 + 65>>

\* C4 as stated: right after a scoring call for U at T, T is in U's
\* history and every instant of the history lies in (T - 60, T].
C4_WindowEndsAtNow ==
    \A p \in DOMAIN pc :
        (Returned(p) /\ frame[p].pos > 0) =>
            LET history == _user_transactions[req[p].user_id]
            IN  /\ Occurrences(history, NowOf(p)) >= 1
                /\ \A i \in DOMAIN history :
                      /\ history[i] > NowOf(p) - 60
                      /\ history[i] <= NowOf(p)

\* What the code does keep of C4: right after a scoring call for U at T,
\* T is the last entry of U's history and every instant of the history is
\* strictly later than T - 60.
WindowStartsAfterCutoff ==
    \A p \in DOMAIN pc :
        (Returned(p) /\ frame[p].pos > 0) =>
            LET history == _user_transactions[req[p].user_id]
            IN  /\ history # << >>
                /\ history[Len(history)] = NowOf(p)
                /\ \A i \in DOMAIN history : history[i] > NowOf(p) - 60

\* C5 as stated: in every result that is no error result, is_fraud is
\* true exactly when the returned (rounded) risk_score is at least the
\* threshold.
C5_FraudIffReturnedScoreAtThreshold ==
    \A p \in DOMAIN pc :
        (Returned(p) /\ ~frame[p].error) =>
            (rule[p].is_fraud <=> rule[p].risk_score >= FRAUD_THRESHOLD)

\* C6: with an anomaly score s in [0, 1] the handler's risk_score is
\* 0.7 * risk_score + 0.3 * s rounded to four decimals (within half a unit
\* of the last decimal), it stays in [0, 1], and is_fraud is the blended
\* score compared with the threshold; with no score (model not loaded, or
\* predict failed) the result is the rule-based one, unchanged.
C6_BlendStep ==
    \A p \in DOMAIN pc :
        Returned(p) =>
            /\ result[p] # None
            /\ ~_loaded => ml_score[p] = None
            /\ ml_score[p] = None => result[p] = rule[p]
            /\ ml_score[p] # None =>
                  LET s == ml_score[p][1]
                      exact == 7 * rule[p].risk_score + 3 * s
                      blended == result[p].risk_score
                  IN  /\ 0 <= s /\ s <= R4
                      /\ 10 * blended - exact <= 5
                      /\ exact - 10 * blended <= 5
                      /\ 0 <= blended /\ blended <= R4
                      /\ result[p].is_fraud <=> blended >= FRAUD_THRESHOLD

\* C6 witness: a rule-based 0.675 (no fraud) blended with an anomaly score
\* of 1.0 gives 0.7725 and turns the decision to fraud.
C6_Witness ==
    \E p \in DOMAIN pc :
        /\ Returned(p)
        /\ ml_score[p] = <<R4>>
        /\ rule[p].risk_score = 6750 /\ ~rule[p].is_fraud
        /\ result[p].risk_score = 7725 /\ result[p].is_fraud

\* The time-of-day score of an hour.
ScoreOfHour(hour) ==
    IF hour \in 0..4 THEN (8 * SD) \div 10
    ELSE IF hour \in {5, 23} THEN (4 * SD) \div 10
    ELSE 0

\* C7 as stated: the time-of-day score of every analysed transaction is
\* that of the hour of its instant expressed in UTC.
C7_TimeScoreOfUtcHour ==
    \A p \in DOMAIN pc :
        (Returned(p) /\ ~frame[p].error) =>
            rule[p].details.time_of_day
               = ScoreOfHour((NowOf(p) \div 3600) % 24)

\* The first four calls recorded for a user lie within 10 seconds.
FourWithinTen(c) ==
    /\ Len(c) >= 4
    /\ \A i, j \in 1..4 : c[i].now - c[j].now <= 10

\* The first four calls score 0, 0, 0 and more than 0.
FirstFourScores(c) ==
    /\ \A i \in 1..3 : VelocityScore(c[i].count) = 0
    /\ c[4].count = 4
    /\ VelocityScore(c[4].count) > 0

\* C8 as stated: from no history, four calls within 10 seconds score 0, 0,
\* 0 and more than 0, and a fifth call more than 60 seconds after the
\* fourth scores 0.
C8_FifthAfterFourth ==
    \A u \in Users :
        LET c == calls[u]
        IN  FourWithinTen(c) =>
               /\ FirstFourScores(c)
               /\ (Len(c) >= 5 /\ c[5].now > c[4].now + 60)
                     => VelocityScore(c[5].count) = 0

\* C8 amended: ... and a fifth call more than 60 seconds after the latest
\* of the four timestamps scores 0.
C8_FifthAfterLatest ==
    \A u \in Users :
        LET c == calls[u]
        IN  FourWithinTen(c) =>
               /\ FirstFourScores(c)
               /\ (Len(c) >= 5 /\ \A i \in 1..4 : c[5].now > c[i].now + 60)
                     => VelocityScore(c[5].count) = 0

\* C8 witness: calls at T0+10, T0, T0+5, T0+10, then one at T0+71.
C8_Witness ==
    LET c == calls["u1"]
    IN  /\ Len(c) = 5
        /\ c[1].now = T0 + 10 /\ c[2].now = T0 /\ c[3].now = T0 + 5
        /\ c[4].now = T0 + 10 /\ c[4].count = 4
        /\ c[5].now = T0 + 71 /\ c[5].count = 1

\* C9: a scoring call for user U leaves the entry (present or absent) of
\* every other user as it was, and the count it computes is one more than
\* the number of U's own previous instants later than now - 60.
C9_OtherUsersUntouched ==
    [][\A p \in DOMAIN pc :
          Scores(p) =>
             LET u == req[p].user_id
                 old == IF u \in DOMAIN _user_transactions
                        THEN _user_transactions[u] ELSE << >>
             IN  /\ \A v \in Users \ {u} :
                        /\ v \in DOMAIN _user_transactions'
                              <=> v \in DOMAIN _user_transactions
                        /\ v \in DOMAIN _user_transactions =>
                              _user_transactions'[v] = _user_transactions[v]
                        /\ calls'[v] = calls[v]
                 /\ frame'[p].pos > 0 =>
                       LET call == calls'[u][frame'[p].pos]
                       IN  call.count =
                              1 + Cardinality({i \in DOMAIN old :
                                                  old[i] > call.now - 60})]_vars

\* C9 witness: a call for u1 has returned with count 1 while u2's history
\* holds two instants of the same window.
C9_Witness ==
    \E p \in DOMAIN pc :
        /\ Returned(p)
        /\ req[p].user_id = "u1"
        /\ frame[p].pos = 1 /\ CountOf(p) = 1 /\ NowOf(p) = T0 + 30
        /\ "u2" \in DOMAIN _user_transactions
        /\ _user_transactions["u2"] = <<T0, T0 + 30>>

\* C10 as stated: a scoring call made through one service instance leaves
\* the history that every other instance uses as it was.
C10_InstancesOwnTheirHistory ==
    [][\A p \in DOMAIN pc :
          Scores(p) =>
             \A s \in Services \ {req[p].service} :
                 Tracker(s)' = Tracker(s)]_vars

\* The factors in the order of analyze_transaction, and the explanation
\* string that belongs to each.
FactorOrder == <<"amount", "time_of_day", "velocity", "category", "pattern">>

AnomalyOf(f) ==
    CASE f = "amount" -> "High transaction amount"
      [] f = "time_of_day" -> "Suspicious transaction time"
      [] f = "velocity" -> "Rapid transaction activity detected"
      [] f = "category" -> "High-risk category"
      [] f = "pattern" -> "Suspicious transaction pattern"

\* C11: in every result that is no error result, each factor with a score
\* strictly greater than 0.3 has exactly one explanation string in
\* detected_anomalies, every other factor has none, the list holds nothing
\* else, and the strings stand in the order amount, time, velocity,
\* category, pattern.
C11_AnomaliesPerFactorInOrder ==
    \A p \in DOMAIN pc :
        (Returned(p) /\ ~frame[p].error) =>
            LET list == rule[p].detected_anomalies
                details == rule[p].details
            IN  /\ \A i \in DOMAIN FactorOrder :
                      Occurrences(list, AnomalyOf(FactorOrder[i])) =
                         IF 10 * details[FactorOrder[i]] > 3 * SD
                         THEN 1 ELSE 0
                /\ \A k \in DOMAIN list :
                      \E i \in DOMAIN FactorOrder :
                          list[k] = AnomalyOf(FactorOrder[i])
                /\ \A k, l \in DOMAIN list :
                      k < l =>
                         \E i, j \in DOMAIN FactorOrder :
                             /\ i < j
                             /\ list[k] = AnomalyOf(FactorOrder[i])
                             /\ list[l] = AnomalyOf(FactorOrder[j])

\* C11 witness: all five factors above 0.3 at once (the fourth call of a
\* user within the window), so that all five strings are listed.
C11_Witness ==
    \E p \in DOMAIN pc :
        /\ Returned(p) /\ ~frame[p].error
        /\ Len(rule[p].detected_anomalies) = 5

\* C12: in every result that is no error result, with k the number of
\* factor scores strictly greater than 0.1, confidence is
\* min(0.99, 0.6 + 0.08 k) when is_fraud and min(0.99, 0.7 + 0.06 (5 - k))
\* otherwise.
C12_ConfidenceFormula ==
    \A p \in DOMAIN pc :
        (Returned(p) /\ ~frame[p].error) =>
            LET details == rule[p].details
                k == Cardinality({f \in DOMAIN details :
                                     10 * details[f] > SD})
            IN  rule[p].confidence =
                   IF rule[p].is_fraud
                   THEN Min(9900, 6000 + 800 * k)
                   ELSE Min(9900, 7000 + 600 * (5 - k))

\* C12 witness: a fraud result with five factors above 0.1 (confidence
\* capped at 0.99).
C12_Witness ==
    \E p \in DOMAIN pc :
        /\ Returned(p) /\ ~frame[p].error
        /\ rule[p].is_fraud
        /\ rule[p].confidence = 9900

\* The amount score of the call of handler p.
AmountScoreOf(p) == rule[p].details.amount
\* The rise of the amount score per cent on the ramp from 5000 to 25000.
RampStep == (SD \div 2) \div (VERY_HIGH_AMOUNT_THRESHOLD - HIGH_AMOUNT_THRESHOLD)

\* Two results for amounts one cent apart lie within one ramp step.
NoJumpBetween(p, q) ==
    /\ AmountScoreOf(q) - AmountScoreOf(p) <= RampStep
    /\ AmountScoreOf(p) - AmountScoreOf(q) <= RampStep

\* The parts of C13 that do not concern the approach to 5000 from below:
\* 1.0 from 25000 on, 0.5 at 5000, strictly increasing over [5000, 25000).
AmountRamp ==
    /\ \A p \in DOMAIN pc :
          (Returned(p) /\ ~frame[p].error) =>
             /\ req[p].amount >= 2500000 => AmountScoreOf(p) = SD
             /\ req[p].amount = 500000 => 2 * AmountScoreOf(p) = SD
    /\ \A p, q \in DOMAIN pc :
          (/\ Returned(p) /\ Returned(q)
           /\ 500000 <= req[p].amount
           /\ req[p].amount < req[q].amount
           /\ req[q].amount < 2500000)
          => AmountScoreOf(p) < AmountScoreOf(q)

\* C13 as stated: the amount score is 1.0 from 25000 on, strictly
\* increasing over [5000, 25000), 0.5 at 5000 and 1.0 at 25000, and amounts
\* one cent on either side of 5000 and of 25000 score within one ramp step
\* of each other.
C13_AmountContinuousAtBothBoundaries ==
    /\ AmountRamp
    /\ \A p, q \in DOMAIN pc :
          (/\ Returned(p) /\ Returned(q)
           /\ req[q].amount = req[p].amount + 1
           /\ req[p].amount \in {499999, 500000, 2499999, 2500000})
          => NoJumpBetween(p, q)

\* C13 amended: ... the score is continuous at 25000 and, at 5000, from
\* above; one cent below 5000 the score is still under 0.3, more than 0.2
\* below the score of 5000.
C13_AmountContinuousExceptBelow5000 ==
    /\ AmountRamp
    /\ \A p, q \in DOMAIN pc :
          (/\ Returned(p) /\ Returned(q)
           /\ req[q].amount = req[p].amount + 1)
          => /\ req[p].amount \in {500000, 2499999, 2500000}
                   => NoJumpBetween(p, q)
             /\ req[p].amount = 499999
                   => /\ 10 * AmountScoreOf(p) < 3 * SD
                      /\ 10 * (AmountScoreOf(q) - AmountScoreOf(p)) > 2 * SD

\* C13 witness: 4999.99 and 5000.00 have both been scored.
C13_Witness ==
    \E p, q \in DOMAIN pc :
        /\ Returned(p) /\ Returned(q)
        /\ req[p].amount = 499999 /\ req[q].amount = 500000
        /\ 2 * AmountScoreOf(q) = SD
        /\ AmountScoreOf(p) = 3599991

\* The call of handler p is the first scoring call for its user, has
\* returned no error result, and was for the scenario of C14: 6000.00,
\* "cryptocurrency", "urgent bitcoin transfer", 02:00 UTC.
Scenario6000(p) ==
    /\ Returned(p) /\ ~frame[p].error
    /\ frame[p].pos = 1
    /\ req[p].amount = 600000
    /\ req[p].category = "cryptocurrency"
    /\ req[p].description = {"urgent", "bitcoin"}
    /\ req[p].transaction_date = Aware(T0, 0)

\* The factor scores of C14 other than the amount score.
Scenario6000Factors(p) ==
    /\ 10 * rule[p].details.time_of_day = 8 * SD
    /\ rule[p].details.velocity = 0
    /\ 10 * rule[p].details.category = 9 * SD
    /\ 10 * rule[p].details.pattern = 8 * SD
    /\ ~rule[p].is_fraud

\* C14 as stated: the scenario yields an amount score of about 0.6 (0.6
\* to one decimal), time 0.8, velocity 0, category 0.9, pattern 0.8, a
\* risk_score of 0.555 and no fraud.
C14_Scenario6000Scores555 ==
    \A p \in DOMAIN pc :
        Scenario6000(p) =>
            /\ Scenario6000Factors(p)
            /\ 100 * rule[p].details.amount >= 55 * SD
            /\ 100 * rule[p].details.amount < 65 * SD
            /\ rule[p].risk_score = 5550

\* C14 amended: the scenario yields an amount score of 0.525, the other
\* factor scores as stated, a risk_score of 0.5325 and no fraud.
C14_Scenario6000Scores5325 ==
    \A p \in DOMAIN pc :
        Scenario6000(p) =>
            /\ Scenario6000Factors(p)
            /\ 40 * rule[p].details.amount = 21 * SD
            /\ rule[p].risk_score = 5325

\* C14 witness: the scenario has been analysed; four factors are listed.
C14_Witness ==
    \E p \in DOMAIN pc :
        /\ Scenario6000(p)
        /\ rule[p].detected_anomalies =
              <<"High transaction amount", "Suspicious transaction time",
                "High-risk category", "Suspicious transaction pattern">>

\* The call of handler p is the first scoring call for its user, has
\* returned no error result, and was for the scenario of C15: 30000.00,
\* no risky category, no description, 03:00 UTC.
Scenario30000(p) ==
    /\ Returned(p) /\ ~frame[p].error
    /\ frame[p].pos = 1
    /\ req[p].amount = 3000000
    /\ req[p].category = ""
    /\ req[p].description = NoDescription
    /\ req[p].transaction_date = Aware(T0 + Hour, 0)

\* The factor scores of C15 other than the pattern score.
Scenario30000Factors(p) ==
    /\ rule[p].details.amount = SD
    /\ 10 * rule[p].details.time_of_day = 8 * SD
    /\ rule[p].details.velocity = 0
    /\ rule[p].details.category = 0
    /\ ~rule[p].is_fraud

\* C15 as stated: the scenario yields amount 1.0, time 0.8, every other
\* factor 0 and a risk_score of 0.42, below the threshold.
C15_Scenario30000Scores42 ==
    \A p \in DOMAIN pc :
        Scenario30000(p) =>
            /\ Scenario30000Factors(p)
            /\ rule[p].details.pattern = 0
            /\ rule[p].risk_score = 4200

\* C15 amended: the scenario yields amount 1.0, time 0.8, velocity and
\* category 0, pattern 0.15 (30000 is a whole number above 100) and a
\* risk_score of 0.4425, below the threshold.
C15_Scenario30000Scores4425 ==
    \A p \in DOMAIN pc :
        Scenario30000(p) =>
            /\ Scenario30000Factors(p)
            /\ 100 * rule[p].details.pattern = 15 * SD
            /\ rule[p].risk_score = 4425

\* C15 witness: the scenario has been analysed; the only anomalies are the
\* amount and the time.
C15_Witness ==
    \E p \in DOMAIN pc :
        /\ Scenario30000(p)
        /\ rule[p].detected_anomalies =
              <<"High transaction amount", "Suspicious transaction time">>

\* The anomalies of a list of at most three, joined by "; ".
JoinedUpToThree(list) ==
    CASE Len(list) = 1 -> list[1]
      [] Len(list) = 2 -> list[1] \o "; " \o list[2]
      [] Len(list) = 3 -> list[1] \o "; " \o list[2] \o "; " \o list[3]

\* C16: analyze_legacy returns a response for every request; when the
\* timestamp is a string, parseable or not, analyze_transaction has been
\* called and the response has its is_fraud as is_fraudulent, its
\* risk_score, and as reason its anomalies joined by "; " in their order
\* (no reason when there are none); an unparseable timestamp is scored
\* normally at the current instant.
C16_LegacyMapsAnalyze ==
    \A p \in DOMAIN pc :
        Returned(p) =>
            /\ result[p] # None
            /\ result[p].is_fraudulent \in BOOLEAN
            /\ req[p].timestamp # NonStrTimestamp =>
                  /\ rule[p] # None
                  /\ result[p].is_fraudulent = rule[p].is_fraud
                  /\ result[p].risk_score = rule[p].risk_score
                  /\ Len(rule[p].detected_anomalies) <= 3
                  /\ result[p].reason =
                        IF rule[p].detected_anomalies = << >> THEN None
                        ELSE <<JoinedUpToThree(rule[p].detected_anomalies)>>
            /\ (req[p].timestamp = Unparseable /\ req[p].amount # NaN) =>
                  /\ ~frame[p].error
                  /\ frame[p].pos > 0
                  /\ calls["7"][frame[p].pos].now = T0 + 10 * Hour
                  /\ rule[p].details.time_of_day = 0

\* C16 witness: an unparseable timestamp, scored at the current instant
\* (12:00) as the fourth call of the window, with two anomalies joined.
C16_Witness ==
    \E p \in DOMAIN pc :
        /\ Returned(p)
        /\ req[p].timestamp = Unparseable
        /\ req[p].amount = 3000000
        /\ result[p].reason =
              <<"High transaction amount; Rapid transaction activity detected">>
        /\ result[p].risk_score = rule[p].risk_score
        /\ rule[p].risk_score = 4892

\* C19: with the threshold 0.7 no response of analyze_legacy has
\* is_fraudulent true: its risk_score is at most 0.6925, and both error
\* paths return false.
C19_LegacyNeverFraud ==
    \A p \in DOMAIN pc :
        Returned(p) =>
            /\ ~result[p].is_fraudulent
            /\ result[p].risk_score <= 6925
            /\ rule[p] # None => ~rule[p].is_fraud
            /\ (frame[p].error \/ rule[p] = None) =>
                  result[p].risk_score = 0

\* C19 witness: the bound is reached: 30000 at 02:00 as the sixth or a
\* later call of the window scores 0.6925 and is no fraud.
C19_Witness ==
    \E p \in DOMAIN pc :
        /\ Returned(p)
        /\ req[p].amount = 3000000
        /\ frame[p].pos > 0
        /\ calls["7"][frame[p].pos].count >= 6
        /\ result[p].risk_score = 6925
        /\ ~result[p].is_fraudulent

\* The amount rule of C17 for each of the three entry points: a request
\* with an amount above 5000 is answered as fraudulent.
LegacyVariantAmountRule ==
    \A p \in DOMAIN pc :
        (Returned(p) /\ req[p].amount > 500000) => result[p].is_fraudulent

StandaloneDetectAmountRule ==
    (detect_response # None /\ detect_response.request.amount > 500000)
        => detect_response.response.is_fraudulent

EngineAmountRule ==
    (engine_response # None /\ engine_response.request.amount > 500000)
        => engine_response.response.is_fraudulent

\* C17 as stated: analyze_legacy, the standalone /detect handler and
\* FraudDetectionEngine.analyze_transaction each return every transaction
\* with an amount above 5000 as fraudulent, whatever its timestamp and
\* the velocity history.
C17_LegacyAmountRuleUnconditional ==
    /\ LegacyVariantAmountRule
    /\ StandaloneDetectAmountRule
    /\ EngineAmountRule

FactorsAboveTenth(p) ==
    Cardinality({f \in DOMAIN rule[p].details :
                    10 * rule[p].details[f] > SD})

\* C20: analyze_transaction returns is_fraud true only with at least four
\* factor scores above 0.1 (with three or fewer the risk_score is at most
\* 0.685), so the confidence of a fraud result is 0.92 or 0.99.
C20_FraudNeedsFourFactors ==
    \A p \in DOMAIN pc :
        (Returned(p) /\ ~frame[p].error) =>
            /\ rule[p].is_fraud =>
                  /\ FactorsAboveTenth(p) >= 4
                  /\ rule[p].confidence \in {9200, 9900}
            /\ FactorsAboveTenth(p) <= 3 =>
                  /\ rule[p].risk_score <= 6850
                  /\ ~rule[p].is_fraud

\* C20 witness: a fraud result with exactly four factors above 0.1 and
\* confidence 0.92.
C20_Witness ==
    \E p \in DOMAIN pc :
        /\ Returned(p) /\ ~frame[p].error
        /\ rule[p].is_fraud
        /\ FactorsAboveTenth(p) = 4
        /\ rule[p].confidence = 9200

\* The largest score with three factors is reached: 25000.01 in a
\* high-risk category at noon as the sixth call of the window.
ThreeFactorsReach685 ==
    \E p \in DOMAIN pc :
        /\ Returned(p) /\ ~frame[p].error
        /\ FactorsAboveTenth(p) = 3
        /\ rule[p].risk_score = 6850

\* The instants of a user's record of scoring calls never go back.
NonDecreasing(record) ==
    \A i, j \in DOMAIN record : i <= j => record[i].now <= record[j].now

\* A history in non-decreasing order.
Sorted(history) ==
    \A i, j \in DOMAIN history : i <= j => history[i] <= history[j]

\* The reference tracker: every instant ever recorded for the user is
\* kept, and the window (now - 60, now] of call i is counted afresh over
\* the calls made so far, call i included.
ReferenceCount(record, i) ==
    Cardinality({j \in 1..i :
                    /\ record[j].now > record[i].now - VELOCITY_WINDOW_SECONDS
                    /\ record[j].now <= record[i].now})

\* C21: when the instants of a user's successive scoring calls are
\* non-decreasing, the user's stored history is sorted in non-decreasing
\* order, and the count each call used equals the number of the user's
\* scoring calls so far (that call included) whose instant lies in
\* (now - 60 s, now]: the pruned list agrees with a tracker that keeps
\* every instant and counts the window afresh.
C21_PrunedListAgreesWithReference ==
    \A u \in Users :
        NonDecreasing(calls[u]) =>
            /\ u \in DOMAIN _user_transactions =>
                  Sorted(_user_transactions[u])
            /\ \A i \in DOMAIN calls[u] :
                  calls[u][i].count = ReferenceCount(calls[u], i)

\* C21 witness: five calls in time order, three within ten seconds and two
\* more than a minute after the first; the fourth call prunes the first
\* two instants and the fifth prunes the third, so the counts are 1, 2, 3,
\* 2, 2 and the stored list holds the last two instants.
C21_Witness ==
    /\ Len(calls["u1"]) = 5
    /\ calls["u1"][1] = [now |-> T0, count |-> 1]
    /\ calls["u1"][2] = [now |-> T0 + 5, count |-> 2]
    /\ calls["u1"][3] = [now |-> T0 + 10, count |-> 3]
    /\ calls["u1"][4] = [now |-> T0 + 65, count |-> 2]
    /\ calls["u1"][5] = [now |-> T0 + 71, count |-> 2]
    /\ _user_transactions["u1"] = <<T0 + 65, T0 + 71>>

\* Without the premise the agreement is lost: a call at T0 after one at
\* T0 + 65 counts 2, while only its own instant lies in (T0 - 60, T0].
OutOfOrderCountsLaterInstant ==
    /\ Len(calls["u1"]) = 2
    /\ calls["u1"][1] = [now |-> T0 + 65, count |-> 1]
    /\ calls["u1"][2] = [now |-> T0, count |-> 2]
    /\ ReferenceCount(calls["u1"], 2) = 1

\* The confidence line 133 or 135 gives for the decision the rule-based
\* analysis of handler p took.
PreBlendConfidence(p) ==
    LET above == Cardinality({f \in DOMAIN rule[p].details :
                                 10 * rule[p].details[f] > SD})
    IN  IF rule[p].is_fraud THEN Min(9900, 6000 + above * 800)
        ELSE Min(9900, 7000 + (5 - above) * 600)

\* The fields other than risk_score and is_fraud are those of `dict`.
SameOtherFields(doc, dict) ==
    /\ doc.detected_anomalies = dict.detected_anomalies
    /\ doc.confidence = dict.confidence
    /\ doc.model_version = dict.model_version

\* The handler's dict and response once the blend step is over.
BlendLeavesOtherFields ==
    \A p \in DOMAIN pc :
        Returned(p) =>
            /\ SameOtherFields(result[p], rule[p])
            /\ result[p].details = rule[p].details
            /\ DOMAIN result[p] = DOMAIN rule[p]
            /\ SameOtherFields(Response(result[p]), rule[p])
            /\ Response(result[p]).risk_score = result[p].risk_score
            /\ Response(result[p]).is_fraud = result[p].is_fraud
            /\ ~frame[p].error =>
                  Response(result[p]).confidence = PreBlendConfidence(p)

\* The documents a handler inserts when it persists its dict.
PersistsBlendedDict ==
    \A p \in DOMAIN pc :
        (pc[p] = "persist" /\ pc'[p] = "idle") =>
            /\ \A i \in DOMAIN fraud_analyses' \ DOMAIN fraud_analyses :
                  LET doc == fraud_analyses'[i]
                  IN  /\ SameOtherFields(doc, rule[p])
                      /\ doc.details = rule[p].details
                      /\ doc.risk_score = result[p].risk_score
                      /\ doc.is_fraud = result[p].is_fraud
                      /\ ~frame[p].error =>
                            doc.confidence = PreBlendConfidence(p)
            /\ \A i \in DOMAIN fraud_alerts' \ DOMAIN fraud_alerts :
                  LET doc == fraud_alerts'[i]
                  IN  /\ result[p].is_fraud
                      /\ SameOtherFields(doc, rule[p])
                      /\ doc.details = rule[p].details
                      /\ doc.risk_score = result[p].risk_score
                      /\ doc.is_fraud
                      /\ ~frame[p].error =>
                            doc.confidence = PreBlendConfidence(p)

\* C22: the blend step of the /analyze handler changes risk_score and
\* is_fraud only: detected_anomalies, confidence, details and
\* model_version of the dict, of the response and of the documents
\* inserted are those of the unblended result, so that when the blend
\* turns is_fraud (either way) the confidence returned and persisted is
\* still the one the formula gives for the decision before the blend.
C22_BlendChangesScoreAndDecisionOnly ==
    /\ []BlendLeavesOtherFields
    /\ [][PersistsBlendedDict]_vars

\* C22 witness: both turns have been persisted.  A rule-based 0.675 (no
\* fraud, four factors, confidence 0.76) blended with 1.0 became a fraud
\* result and an alert that carry 0.76, and a rule-based 0.7217 (fraud,
\* four factors, confidence 0.92) blended with 0.0 became a non-fraud
\* document that carries 0.92.
C22_Witness ==
    /\ \E i \in DOMAIN fraud_analyses :
          /\ fraud_analyses[i].is_fraud
          /\ fraud_analyses[i].risk_score = 7725
          /\ fraud_analyses[i].confidence = 7600
    /\ \E i \in DOMAIN fraud_alerts :
          /\ fraud_alerts[i].risk_score = 7725
          /\ fraud_alerts[i].confidence = 7600
    /\ \E i \in DOMAIN fraud_analyses :
          /\ ~fraud_analyses[i].is_fraud
          /\ fraud_analyses[i].risk_score = 5052
          /\ fraud_analyses[i].confidence = 9200

\* What a step may do to the tracker: no key goes away, and a user's list
\* changes only in the step in which a handler scores a call for that
\* user.
TrackerStep ==
    /\ DOMAIN _user_transactions \subseteq DOMAIN _user_transactions'
    /\ \A u \in DOMAIN _user_transactions :
          _user_transactions'[u] # _user_transactions[u] =>
             \E p \in DOMAIN pc :
                /\ Scores(p)
                /\ req[p].user_id = u
                /\ frame'[p].pos = Len(calls[u]) + 1
                /\ Len(calls'[u]) = Len(calls[u]) + 1

\* Every tracked user has at least one instant stored.
TrackedHistoriesNonEmpty ==
    \A u \in DOMAIN _user_transactions : _user_transactions[u] # << >>

\* C23: the set of tracked user keys never shrinks, every tracked user's
\* stored history holds at least one instant, and a user's instants are
\* removed only by a later scoring call for that same user.
C23_TrackerKeysPersist ==
    /\ []TrackedHistoriesNonEmpty
    /\ [][TrackerStep]_vars

\* C23 witness: u1 was scored at T0 and T0 + 30 and u2 at T0; a call for
\* u1 90 seconds after the first has then removed u1's two stale instants,
\* while u2, not scored since, still has its instant of 90 seconds ago.
C23_Witness ==
    /\ DOMAIN _user_transactions = {"u1", "u2"}
    /\ Len(calls["u1"]) = 3
    /\ calls["u1"][3] = [now |-> T0 + 90, count |-> 1]
    /\ _user_transactions["u1"] = <<T0 + 90>>
    /\ _user_transactions["u2"] = <<T0>>

=============================================================================
